---- MODULE Spec2Model ----
(***************************************************************************)
(* State-machine model of the monty cogs CodeButtons                       *)
(* (monty/exts/info/codeblock_buttons.py) and DevTools                     *)
(* (monty/exts/dev_tools.py).                                              *)
(*                                                                         *)
(* A handler is a coroutine: the code between two awaits runs atomically   *)
(* on the event loop, so every action below is one such segment.  A task   *)
(* is one running invocation of a handler.                                 *)
(*                                                                         *)
(* Optional[T] is modelled as a set with at most one element: {} is None   *)
(* and {v} is the value v.                                                 *)
(***************************************************************************)
EXTENDS Integers, Sequences, FiniteSets, TLC

(***************************************************************************)
(* Strings.  A string is a sequence of tokens, each token a fixed piece of *)
(* text, so that a message of more than MAX_LEN characters stays a short   *)
(* sequence.                                                               *)
(***************************************************************************)

\* MAX_LEN = 20_000
MAX_LEN == 20000

\* Longest message content, in tokens.
MaxContentLen == 3

CHAR == "x"
RUN == "x*MAX_LEN"
SPACE == " "
URL_ID == "paste.disnake.dev/p?id="
URL_BARE == "paste.nextcord.dev/"
\* the three-backtick fence marker
FENCE == "<fence>"

Tok == {CHAR, RUN, SPACE, URL_ID, URL_BARE, FENCE}

\* Number of characters of a token.
TokLen(k) ==
    CASE k = CHAR -> 1
      [] k = RUN -> MAX_LEN
      [] k = SPACE -> 1
      [] k = URL_ID -> 23
      [] k = URL_BARE -> 19
      [] k = FENCE -> 3

RECURSIVE StrLen(_)
\* len(s)
StrLen(s) == IF s = <<>> THEN 0 ELSE TokLen(Head(s)) + StrLen(Tail(s))

Strings(n) == UNION {[1..k -> Tok] : k \in 0..n}

Contents == Strings(MaxContentLen)

\* The value of a non-None Optional.
The(o) == CHOOSE v \in o : TRUE

\* Python truthiness of an Optional[str]: None and "" are falsy.
Truthy(o) == o # {} /\ The(o) # <<>>

CogNames == {"Snekbox", "Code Block"}

(***************************************************************************)
(* PASTE_REGEX = (https?:\/\/)?paste\.(disnake|nextcord)\.dev\/\S+         *)
(***************************************************************************)

IsHost(k) == k \in {URL_ID, URL_BARE}

\* Whether a match can start at token i: the host and slash are followed by
\* at least one non-space character (URL_ID carries "p?id=" itself).
MatchesAt(s, i) ==
    /\ IsHost(s[i])
    /\ \/ s[i] = URL_ID
       \/ i < Len(s) /\ s[i + 1] # SPACE

\* End of the greedy \S+ that starts at token i.
RunEnd(s, i) ==
    IF \E j \in i..Len(s) : s[j] = SPACE
    THEN (CHOOSE j \in i..Len(s) : s[j] = SPACE /\ \A h \in i..(j - 1) : s[h] # SPACE) - 1
    ELSE Len(s)

\* PASTE_REGEX.search(content) then match.group(): the leftmost match, or None.
PASTE_REGEX_search(s) ==
    LET starts == {i \in 1..Len(s) : MatchesAt(s, i)}
    IN  IF starts = {} THEN {}
        ELSE LET i == CHOOSE a \in starts : \A b \in starts : a <= b
             IN  {SubSeq(s, i, RunEnd(s, i))}

\* urlparse(match).query, parse_qs and query_strings["id"][0]: the text after
\* the first "?id=" of the match; parse_qs drops a blank value, so a match
\* with no query or with "id=" alone has no "id" entry (None here stands for
\* the KeyError of the subscript).
QueryId(m) ==
    LET qs == {i \in 1..Len(m) : m[i] = URL_ID}
    IN  IF qs = {} THEN {}
        ELSE LET q == CHOOSE a \in qs : \A b \in qs : a <= b
                 v == SubSeq(m, q + 1, Len(m))
             IN  IF v = <<>> THEN {} ELSE {v}

\* The paste service's answer to GET raw_paste_endpoint.format(key=id): the
\* pastes it stores, 404 for any other key.
RawPaste(key) ==
    CASE key = <<CHAR>> -> [status |-> 200, body |-> <<CHAR>>]
      [] key = <<RUN>> -> [status |-> 200, body |-> <<RUN>>]
      [] key = <<CHAR, CHAR>> -> [status |-> 200, body |-> <<RUN, CHAR>>]
      [] key = <<FENCE>> -> [status |-> 200, body |-> <<>>]
      [] key = <<CHAR, FENCE>> -> [status |-> 200, body |-> <<SPACE, CHAR>>]
      [] OTHER -> [status |-> 404, body |-> <<>>]

(***************************************************************************)
(* Snekbox.prepare_input and CodeBlockCog.is_python_code                   *)
(***************************************************************************)

RECURSIVE Strip(_)
\* Leading and trailing blanks removed.
Strip(s) ==
    IF s = <<>> THEN s
    ELSE IF Head(s) = SPACE THEN Strip(Tail(s))
    ELSE IF s[Len(s)] = SPACE THEN Strip(SubSeq(s, 1, Len(s) - 1))
    ELSE s

\* The inner text of the first fenced region of s, or None.
Fenced(s) ==
    LET fs == {i \in 1..Len(s) : s[i] = FENCE}
    IN  IF Cardinality(fs) < 2 THEN {}
        ELSE LET a == CHOOSE i \in fs : \A j \in fs : i <= j
                 b == CHOOSE i \in fs \ {a} : \A j \in fs \ {a} : i <= j
             IN  {Strip(SubSeq(s, a + 1, b - 1))}

\* snekbox.prepare_input(content, require_fenced=...)
prepare_input(content, require_fenced) ==
    IF Fenced(content) # {} THEN Fenced(content)
    ELSE IF require_fenced THEN {}
    ELSE IF Strip(content) = <<>> THEN {}
    ELSE {content}

\* codeblock.is_python_code(code)
is_python_code(code) == \A i \in 1..Len(code) : ~IsHost(code[i])

(***************************************************************************)
(* State                                                                   *)
(***************************************************************************)

Tasks == {"a", "b"}

VARIABLES
    cogs,   \* the names of the cogs loaded in the bot (bot.get_cog)
    tasks   \* per task: the position and the locals of the running handler

vars == <<cogs, tasks>>

NoArgs ==
    [client_id |-> {}, permissions |-> {}, guild |-> {},
     include_applications_commands |-> TRUE, raw_link |-> FALSE, ephemeral |-> FALSE]

IdleTask ==
    [pc |-> "idle", cmd |-> "none",
     content |-> <<>>, require_fenced |-> FALSE, check_is_python |-> FALSE,
     args |-> NoArgs,
     conn |-> FALSE,      \* holds a connection of bot.http_session
     resp |-> {},         \* the response of the paste GET
     paste |-> {},        \* what check_paste_link returned
     code |-> {},         \* parse_code's local code at line 84
     is_paste |-> {},     \* parse_code's local is_paste
     lookup |-> {},       \* the cogs get_code found loaded, when it ran
     result |-> {},       \* what parse_code returned
     ret |-> {},          \* what _format_black returned
     responded |-> FALSE, \* the interaction has had its response
     exc |-> "",          \* the exception that ended the handler
     calls |-> <<>>]      \* the calls the handler made, in order

\* One call made by a handler: a message sent, or a request to a collaborator.
Call(op, arg) == [op |-> op, arg |-> arg, ephemeral |-> FALSE, components |-> FALSE]

Msg(op, text, ephemeral, components) ==
    [op |-> op, arg |-> text, ephemeral |-> ephemeral, components |-> components]

Called(t, op) == \E i \in 1..Len(t.calls) : t.calls[i].op = op

Count(t, op) == Cardinality({i \in 1..Len(t.calls) : t.calls[i].op = op})

Did(t, c) == [t EXCEPT !.calls = Append(@, c)]

\* An exception leaves the handler; an async with block releases on the way.
Raise(t, e) == [t EXCEPT !.pc = "raised", !.exc = e, !.conn = FALSE]

Return(t) == [t EXCEPT !.pc = "done"]

\* inter.send(...): the response when there is none yet, a followup otherwise.
Send(t, text, ephemeral, components) ==
    [Did(t, Msg("send", text, ephemeral, components)) EXCEPT !.responded = TRUE]

NO_CODE == <<"This message does not have any code to extract.">>
ALREADY_PASTE == <<"This is already a paste link.">>
UPLOADED == <<"I've uploaded this message to paste, you can view it here:">>

(***************************************************************************)
(* CodeButtons.get_code, check_paste_link, parse_code                      *)
(***************************************************************************)

\* get_code(content, require_fenced, check_is_python), the cogs in `loaded`
\* being the ones bot.get_cog finds.
get_code(content, require_fenced, check_is_python, loaded) ==
    IF "Snekbox" \notin loaded THEN {}
    ELSE LET code == prepare_input(content, require_fenced)
         IN  IF ~Truthy(code) THEN {}
             ELSE IF /\ check_is_python
                     /\ "Code Block" \in loaded
                     /\ ~is_python_code(The(code))
                  THEN {}
             ELSE code

\* Outcome without the length check of line 85.
Outcome_no_length_check(code, is_paste) ==
    IF ~Truthy(code)
    THEN [success |-> FALSE, code |-> {}, is_paste |-> {}]
    ELSE [success |-> TRUE, code |-> code, is_paste |-> {is_paste}]

\* Outcome with the limit of line 85 off by one.
Outcome_off_by_one(code, is_paste) ==
    IF ~Truthy(code) \/ StrLen(The(code)) > MAX_LEN + 1
    THEN [success |-> FALSE, code |-> {}, is_paste |-> {}]
    ELSE [success |-> TRUE, code |-> code, is_paste |-> {is_paste}]

\* parse_code's lines 84-88: the result tuple for the candidate code.
Outcome(code, is_paste) ==
    IF ~Truthy(code) \/ StrLen(The(code)) > MAX_LEN
    THEN [success |-> FALSE, code |-> {}, is_paste |-> {}]
    ELSE [success |-> TRUE, code |-> code, is_paste |-> {is_paste}]

\* parse_code_resume with no else branch: a paste that did not resolve is a
\* rejection, get_code is not tried.
parse_code_resume_no_fallback(t, paste, loaded) ==
    [t EXCEPT !.paste = paste, !.code = paste, !.is_paste = {Truthy(paste)},
              !.result = {Outcome(paste, TRUE)}]

\* parse_code_resume that tries get_code again when the paste is too long.
parse_code_resume_second_try(t, paste, loaded) ==
    IF Truthy(paste) /\ StrLen(The(paste)) <= MAX_LEN
    THEN [t EXCEPT !.paste = paste, !.code = paste, !.is_paste = {TRUE},
                   !.result = {Outcome(paste, TRUE)}]
    ELSE LET code == get_code(t.content, t.require_fenced, t.check_is_python, loaded)
         IN  [Did(t, Call("get_code", <<>>)) EXCEPT
                   !.paste = paste, !.code = code, !.is_paste = {FALSE},
                   !.lookup = {loaded},
                   !.result = {Outcome(code, FALSE)}]

\* parse_code_resume with the Snekbox guard of get_code ahead of line 78.
parse_code_resume_guard_first(t, paste, loaded) ==
    IF Truthy(paste)
    THEN [t EXCEPT !.paste = paste, !.code = paste, !.is_paste = {TRUE},
                   !.result = {IF "Snekbox" \in loaded THEN Outcome(paste, TRUE)
                               ELSE Outcome({}, TRUE)}]
    ELSE LET code == get_code(t.content, t.require_fenced, t.check_is_python, loaded)
         IN  [Did(t, Call("get_code", <<>>)) EXCEPT
                   !.paste = paste, !.code = code, !.is_paste = {FALSE},
                   !.lookup = {loaded},
                   !.result = {Outcome(code, FALSE)}]

\* parse_code from line 78 on, check_paste_link having returned `paste`.
parse_code_resume(t, paste, loaded) ==
    IF Truthy(paste)
    THEN [t EXCEPT !.paste = paste, !.code = paste, !.is_paste = {TRUE},
                   !.result = {Outcome(paste, TRUE)}]
    ELSE LET code == get_code(t.content, t.require_fenced, t.check_is_python, loaded)
         IN  [Did(t, Call("get_code", <<>>)) EXCEPT
                   !.paste = paste, !.code = code, !.is_paste = {FALSE},
                   !.lookup = {loaded},
                   !.result = {Outcome(code, FALSE)}]

\* upload_to_workbin_parsed without the is_paste test of line 109.
upload_to_workbin_parsed_no_paste_test(t) ==
    LET r == The(t.result)
    IN  IF ~r.success THEN Return(Send(t, NO_CODE, TRUE, FALSE))
        ELSE [Did(t, Call("send_to_paste_service", The(r.code)))
                EXCEPT !.pc = "send_to_paste_service"]

\* upload_to_workbin once parse_code returned (lines 106-113).
upload_to_workbin_parsed(t) ==
    LET r == The(t.result)
    IN  IF ~r.success THEN Return(Send(t, NO_CODE, TRUE, FALSE))
        ELSE IF The(r.is_paste) THEN Return(Send(t, ALREADY_PASTE, TRUE, FALSE))
        ELSE [Did(t, Call("send_to_paste_service", The(r.code)))
                EXCEPT !.pc = "send_to_paste_service"]

\* _format_black once parse_code returned (lines 129-136).
format_black_parsed(t) ==
    LET r == The(t.result)
    IN  IF ~r.success
        THEN Return([t EXCEPT !.ret = {[success |-> FALSE, msg |-> NO_CODE,
                                        link |-> FALSE]}])
        ELSE [Did(t, Call("POST", The(r.code))) EXCEPT !.pc = "black", !.conn = TRUE]

\* run_in_snekbox once parse_code returned (lines 210-214).
run_in_snekbox_parsed(t) ==
    LET r == The(t.result)
    IN  IF ~r.success THEN Return(Send(t, NO_CODE, TRUE, FALSE))
        ELSE [Did(t, Call("defer", <<>>)) EXCEPT !.pc = "defer", !.responded = TRUE]

\* What the caller of parse_code does with the result, up to its next await.
after_parse(t) ==
    CASE t.cmd = "parse_code" -> Return(t)
      [] t.cmd = "upload_to_workbin" -> upload_to_workbin_parsed(t)
      [] t.cmd = "_format_black" -> format_black_parsed(t)
      [] t.cmd = "run_in_snekbox" -> run_in_snekbox_parsed(t)

\* check_paste_link down to the GET (lines 56-64); with no match it returns
\* None at once and parse_code goes on.
check_paste_link(t, loaded) ==
    LET match == PASTE_REGEX_search(t.content)
    IN  IF match = {} THEN after_parse(parse_code_resume(t, {}, loaded))
        ELSE IF QueryId(The(match)) = {} THEN Raise(t, "KeyError")
        ELSE [Did(t, Call("GET", The(QueryId(The(match)))))
                EXCEPT !.pc = "get", !.conn = TRUE]

\* check_paste_link_response that returns on a status other than 200 with the
\* connection still borrowed.
check_paste_link_response_leak(t, resp, loaded) ==
    LET kept == [t EXCEPT !.conn = (resp.status # 200), !.resp = {resp}]
        paste == IF resp.status # 200 THEN {} ELSE {resp.body}
    IN  after_parse(parse_code_resume(kept, paste, loaded))

\* The GET answered (lines 65-67); the async with block releases the
\* connection whatever the status.
check_paste_link_response(t, resp, loaded) ==
    LET released == [t EXCEPT !.conn = FALSE, !.resp = {resp}]
        paste == IF resp.status # 200 THEN {} ELSE {resp.body}
    IN  after_parse(parse_code_resume(released, paste, loaded))

\* A new invocation of a handler that starts with parse_code.
NewTask(cmd, content, require_fenced, check_is_python) ==
    [IdleTask EXCEPT !.pc = "running", !.cmd = cmd, !.content = content,
                     !.require_fenced = require_fenced,
                     !.check_is_python = check_is_python]

\* The key the pending GET of t asks for.
PendingKey(t) == t.calls[Len(t.calls)].arg

(***************************************************************************)
(* CodeButtons.upload_to_workbin, _format_black, run_in_snekbox            *)
(***************************************************************************)

\* upload_to_workbin after send_to_paste_service returned the url (lines 114-119).
upload_to_workbin_sent(t) == Return(Send(t, UPLOADED, FALSE, TRUE))

UNCHANGED_MSG == <<"Formatted with black but no changes were made!">>
BLACK_FAILED ==
    <<"Something went wrong internally when formatting the code. Please report this.">>
FORMATTED == <<"Formatted with black. Click the button below to view on the pastebin.">>
CANNOT_PARSE == <<"Attempted to format with black, but an error occured. Click to view.">>
SORRY == <<"Sorry, something went wrong!">>

\* What the black endpoint can answer: a status other than 200, the source
\* unchanged, the source reformatted, or black's "Cannot parse:" report.
BlackAnswers == {"not 200", "unchanged", "formatted", "Cannot parse:"}

Ret(t, success, msg, link) ==
    Return([t EXCEPT !.ret = {[success |-> success, msg |-> msg, link |-> link]}])

\* The receiver of a method called on self.get_snekbox().
Receiver(loaded) == IF "Snekbox" \in loaded THEN <<"Snekbox">> ELSE <<"None">>

\* _format_black once the POST is answered (lines 137-147); the async with
\* block releases the connection.
format_black_response(t, answer, loaded) ==
    LET released == [t EXCEPT !.conn = FALSE]
    IN  IF answer = "not 200" THEN Ret(released, FALSE, BLACK_FAILED, FALSE)
        ELSE IF answer = "unchanged" THEN Ret(released, TRUE, UNCHANGED_MSG, FALSE)
        ELSE LET called == [Did(released, Call("upload_output", Receiver(loaded)))
                              EXCEPT !.pc = answer]
             IN  IF "Snekbox" \notin loaded THEN Raise(called, "AttributeError")
                 ELSE called

\* _format_black once upload_output returned `paste` (lines 148-154).
format_black_uploaded(t, paste) ==
    IF ~paste THEN Ret(t, FALSE, SORRY, FALSE)
    ELSE IF t.pc = "Cannot parse:" THEN Ret(t, TRUE, CANNOT_PARSE, TRUE)
    ELSE Ret(t, TRUE, FORMATTED, TRUE)

\* run_in_snekbox once the response is deferred (line 215).
run_in_snekbox_deferred(t, loaded) ==
    LET called == [Did(t, Call("send_eval", Receiver(loaded))) EXCEPT !.pc = "send_eval"]
    IN  IF "Snekbox" \notin loaded THEN Raise(called, "AttributeError")
        ELSE called

\* run_in_snekbox once send_eval returned (lines 217-227).
run_in_snekbox_evaluated(t, link) ==
    Return(Did(Did(t, Msg("edit_original_message", <<"msg">>, FALSE, link)),
               Call("wait_for_deletion", <<>>)))

(***************************************************************************)
(* DevTools.invite                                                         *)
(***************************************************************************)

\* inter.bot.user.id
BotUserId == 1

\* int(s): the integer a string spells, None standing for ValueError.
int(s) ==
    CASE s = "1" -> {1}
      [] s = "7" -> {7}
      [] s = "8" -> {8}
      [] s = "42" -> {42}
      [] OTHER -> {}

\* The values an optional string option of the command can take.
Options == {{}, {""}, {"abc"}, {"1"}, {"42"}}

Truthy_str(o) == o # {} /\ The(o) # ""

\* inter.response.send_message(...): InteractionResponded when the interaction
\* already has its response.
SendMessage(t, text, ephemeral, components) ==
    LET called == Did(t, Msg("send_message", text, ephemeral, components))
    IN  IF t.responded THEN Raise(called, "InteractionResponded")
        ELSE [called EXCEPT !.responded = TRUE]

\* invite down to fetch_user (lines 36-66).
invite(t) ==
    LET a == t.args
    IN  IF Truthy_str(a.client_id) /\ int(The(a.client_id)) = {}
        THEN Return(SendMessage(t, <<"client id must be an integer.">>, TRUE, FALSE))
        ELSE IF Truthy_str(a.permissions) /\ int(The(a.permissions)) = {}
        THEN Return(SendMessage(t, <<"Permissions must be an integer.">>, TRUE, FALSE))
        ELSE IF a.guild # {} /\ int(The(a.guild)) = {}
        THEN Return(SendMessage(t, <<"Guild ID must be an integer.">>, TRUE, FALSE))
        ELSE [Did(t, Call("fetch_user", <<>>)) EXCEPT !.pc = "fetch_user"]

\* The client id after lines 36-43.
ClientId(a) == IF Truthy_str(a.client_id) THEN The(int(The(a.client_id))) ELSE BotUserId

\* invite from line 74 on: the link or the button.
invite_link(t) ==
    LET a == t.args
        message ==
            <<IF ~a.raw_link THEN "Click below to invite"
                             ELSE "Click the following link to invite",
              IF ClientId(a) = BotUserId THEN "me" ELSE "user.mention",
              IF a.guild # {} THEN "to the specified guild!" ELSE "to your guild!">>
            \o (IF a.raw_link THEN <<"url">> ELSE <<>>)
        sent == SendMessage(t, message, a.ephemeral, ~a.raw_link)
    IN  IF sent.pc = "raised" THEN sent ELSE Return(sent)

\* invite once fetch_user is over (lines 67-72): `user` is "NotFound", "bot"
\* or "human".
invite_fetched(t, user) ==
    IF user = "NotFound"
    THEN Return(Send(t, <<"Sorry, that user does not exist.">>, TRUE, FALSE))
    ELSE IF user = "human"
    THEN [Send(t, <<"Sorry, that user is not a bot.">>, TRUE, FALSE) EXCEPT !.pc = "send"]
    ELSE invite_link(t)

(***************************************************************************)
(* Actions                                                                 *)
(***************************************************************************)

Init ==
    /\ cogs \in SUBSET CogNames
    /\ tasks = [t \in Tasks |-> IdleTask]

Step(t, next) ==
    /\ tasks' = [tasks EXCEPT ![t] = next]
    /\ UNCHANGED cogs

\* parse_code(content, require_fenced, check_is_python) called directly.
ParseCode(t) ==
    /\ tasks[t].pc = "idle"
    /\ \E content \in Contents, require_fenced \in BOOLEAN, check_is_python \in BOOLEAN :
          Step(t, check_paste_link(
                     NewTask("parse_code", content, require_fenced, check_is_python), cogs))

\* The paste service answers the GET.
PasteResponse(t) ==
    /\ tasks[t].pc = "get"
    /\ Step(t, check_paste_link_response(tasks[t], RawPaste(PendingKey(tasks[t])), cogs))

\* The GET runs into AIOHTTP_TIMEOUT: asyncio.TimeoutError leaves check_paste_link.
PasteTimeout(t) ==
    /\ tasks[t].pc = "get"
    /\ Step(t, Raise(tasks[t], "TimeoutError"))

\* The GET fails to connect: aiohttp.ClientError leaves check_paste_link.
PasteError(t) ==
    /\ tasks[t].pc = "get"
    /\ Step(t, Raise(tasks[t], "ClientError"))

\* bot.add_cog / bot.remove_cog of the Snekbox or Code Block extension.
LoadCog ==
    /\ \E c \in CogNames \ cogs : cogs' = cogs \cup {c}
    /\ UNCHANGED tasks

UnloadCog ==
    /\ \E c \in cogs : cogs' = cogs \ {c}
    /\ UNCHANGED tasks

\* A message or prefix command that starts with parse_code(content,
\* require_fenced=False, check_is_python=False).
Commands == {"upload_to_workbin", "_format_black", "run_in_snekbox"}

Command(t) ==
    /\ tasks[t].pc = "idle"
    /\ \E cmd \in Commands, content \in Contents :
          Step(t, check_paste_link(NewTask(cmd, content, FALSE, FALSE), cogs))

\* send_to_paste_service returns.
PasteServiceDone(t) ==
    /\ tasks[t].pc = "send_to_paste_service"
    /\ Step(t, upload_to_workbin_sent(tasks[t]))

\* The black endpoint answers the POST.
BlackResponse(t) ==
    /\ tasks[t].pc = "black"
    /\ \E answer \in BlackAnswers : Step(t, format_black_response(tasks[t], answer, cogs))

\* The POST runs into AIOHTTP_TIMEOUT.
BlackTimeout(t) ==
    /\ tasks[t].pc = "black"
    /\ Step(t, Raise(tasks[t], "TimeoutError"))

\* upload_output returns a link or None.
UploadOutputDone(t) ==
    /\ tasks[t].pc \in {"formatted", "Cannot parse:"}
    /\ \E paste \in BOOLEAN : Step(t, format_black_uploaded(tasks[t], paste))

\* inter.response.defer() returns.
Deferred(t) ==
    /\ tasks[t].pc = "defer"
    /\ Step(t, run_in_snekbox_deferred(tasks[t], cogs))

\* send_eval returns, with a link or without.
EvalDone(t) ==
    /\ tasks[t].pc = "send_eval"
    /\ \E link \in BOOLEAN : Step(t, run_in_snekbox_evaluated(tasks[t], link))

\* The invite slash command is used.
Invite(t) ==
    /\ tasks[t].pc = "idle"
    /\ \E client_id \in Options, permissions \in Options, guild \in Options,
          include_applications_commands \in BOOLEAN, raw_link \in BOOLEAN,
          ephemeral \in BOOLEAN :
          Step(t, invite([IdleTask EXCEPT
                     !.cmd = "invite",
                     !.args = [client_id |-> client_id, permissions |-> permissions,
                               guild |-> guild,
                               include_applications_commands |->
                                   include_applications_commands,
                               raw_link |-> raw_link, ephemeral |-> ephemeral]]))

\* fetch_user returns a user or raises NotFound.
UserFetched(t) ==
    /\ tasks[t].pc = "fetch_user"
    /\ \E user \in {"NotFound", "bot", "human"} : Step(t, invite_fetched(tasks[t], user))

\* inter.send of "Sorry, that user is not a bot." returns; line 74 is next.
InviteGoesOn(t) ==
    /\ tasks[t].pc = "send"
    /\ Step(t, invite_link(tasks[t]))

\* A second invocation of parse_code with the arguments of a first one.
Repeat(t, first) ==
    /\ tasks[t].pc = "idle"
    /\ tasks[first].pc # "idle"
    /\ tasks[first].cmd = "parse_code"
    /\ Step(t, check_paste_link(
                  NewTask("parse_code", tasks[first].content, tasks[first].require_fenced,
                          tasks[first].check_is_python), cogs))

Next ==
    \/ ParseCode("a")
    \/ Command("a")
    \/ PasteResponse("a")
    \/ PasteTimeout("a")
    \/ PasteError("a")
    \/ PasteServiceDone("a")
    \/ BlackResponse("a")
    \/ BlackTimeout("a")
    \/ UploadOutputDone("a")
    \/ Deferred("a")
    \/ EvalDone("a")
    \/ Invite("a")
    \/ UserFetched("a")
    \/ InviteGoesOn("a")
    \/ LoadCog
    \/ UnloadCog

Spec == Init /\ [][Next]_vars

\* Two invocations of parse_code on the same arguments, one after the other or
\* interleaved, against a paste service that answers every GET.
NextPair ==
    \/ ParseCode("a")
    \/ Repeat("b", "a")
    \/ \E t \in Tasks : PasteResponse(t)
    \/ LoadCog
    \/ UnloadCog

SpecPair == Init /\ [][NextPair]_vars

(***************************************************************************)
(* Properties                                                              *)
(***************************************************************************)

\* parse_code has returned in task t.
Returned(t) == t.result # {}

Finished(t) == t.pc \in {"done", "raised"}

HasPasteUrl(t) == PASTE_REGEX_search(t.content) # {}

\* The rejection tuple (False, None, None).
Rejected == [success |-> FALSE, code |-> {}, is_paste |-> {}]

TooLong(t) == Truthy(t.code) /\ StrLen(The(t.code)) > MAX_LEN

UsesParseCode(t) == t.cmd \in Commands \cup {"parse_code"}

\* C1 as stated: for every message text with a recognized paste URL, parse_code
\* never calls get_code, and when the GET answers with a status other than 200
\* the result is the rejection (False, None, None).
C1_NoInlineFallback ==
    \A x \in Tasks :
        LET t == tasks[x]
        IN  UsesParseCode(t) /\ HasPasteUrl(t) =>
                /\ ~Called(t, "get_code")
                /\ (Returned(t) /\ t.resp # {} /\ The(t.resp).status # 200
                        => The(t.result) = Rejected)

\* C1 amended: for a message text with a recognized paste URL, parse_code does
\* not call get_code when the GET answers 200 with a non-empty body; when the
\* GET answers with a status other than 200 (or 200 with an empty body)
\* parse_code does call get_code on the message, and the result is what lines
\* 84-88 make of the inline code (accepted with is_paste=False, or the
\* rejection).
C1_FallbackOnFailedFetch ==
    \A x \in Tasks :
        LET t == tasks[x]
        IN  UsesParseCode(t) /\ HasPasteUrl(t) /\ Returned(t) /\ t.resp # {} =>
                LET r == The(t.resp)
                IN  /\ (r.status = 200 /\ r.body # <<>> => ~Called(t, "get_code"))
                    /\ (r.status # 200 \/ r.body = <<>> =>
                            /\ Count(t, "get_code") = 1
                            /\ t.code = get_code(t.content, t.require_fenced,
                                                 t.check_is_python, The(t.lookup))
                            /\ The(t.result) =
                                 IF Truthy(t.code) /\ StrLen(The(t.code)) <= MAX_LEN
                                 THEN [success |-> TRUE, code |-> t.code,
                                       is_paste |-> {FALSE}]
                                 ELSE Rejected)

\* C1 witness: a paste URL whose GET answered 404, and the message itself
\* accepted as inline code.
C1_Witness ==
    \E x \in Tasks :
        LET t == tasks[x]
        IN  /\ t.cmd = "parse_code" /\ HasPasteUrl(t) /\ Returned(t)
            /\ t.resp # {} /\ The(t.resp).status = 404
            /\ The(t.result).success /\ The(t.result).is_paste = {FALSE}

\* C2 as stated: parse_code never raises to its caller, whatever the message
\* text and the outcome of the paste fetch; every failure inside
\* check_paste_link becomes None.
C2_NeverRaises ==
    \A x \in Tasks :
        UsesParseCode(tasks[x]) /\ ~Returned(tasks[x]) => tasks[x].pc # "raised"

\* C3: every result of parse_code is accepted (success=True, code a non-empty
\* string of at most MAX_LEN characters, is_paste a boolean) or rejected
\* (success=False, code=None, is_paste=None).
C3_ResultShape ==
    \A x \in Tasks :
        Returned(tasks[x]) =>
            LET r == The(tasks[x].result)
            IN  \/ /\ r.success
                   /\ r.code # {} /\ The(r.code) # <<>>
                   /\ StrLen(The(r.code)) <= MAX_LEN
                   /\ r.is_paste \in {{TRUE}, {FALSE}}
                \/ /\ ~r.success
                   /\ r.code = {}
                   /\ r.is_paste = {}

\* C3 witness: a paste of exactly MAX_LEN characters is accepted.
C3_Witness ==
    \E x \in Tasks :
        /\ Returned(tasks[x])
        /\ The(tasks[x].result).success
        /\ StrLen(The(The(tasks[x].result).code)) = MAX_LEN
        /\ The(tasks[x].result).is_paste = {TRUE}

\* C4 as stated: whenever the GET answers 200, with any body, the empty one
\* included, the candidate code is that body, the origin is the paste and
\* get_code is not called.
C4_AnyBodyIsPaste ==
    \A x \in Tasks :
        LET t == tasks[x]
        IN  Returned(t) /\ t.resp # {} /\ The(t.resp).status = 200 =>
                /\ t.code = {The(t.resp).body}
                /\ t.is_paste = {TRUE}
                /\ ~Called(t, "get_code")

\* C4 amended: whenever the GET answers 200 with a non-empty body, the
\* candidate code is that body verbatim, the origin is the paste (is_paste=True
\* on acceptance) and get_code is not called, even if the body is longer than
\* MAX_LEN and so rejected.
C4_NonEmptyBodyIsPaste ==
    \A x \in Tasks :
        LET t == tasks[x]
        IN  Returned(t) /\ t.resp # {} /\ The(t.resp).status = 200
                /\ The(t.resp).body # <<>> =>
                /\ t.code = {The(t.resp).body}
                /\ t.is_paste = {TRUE}
                /\ ~Called(t, "get_code")
                /\ (The(t.result).success =>
                        /\ The(t.result).code = {The(t.resp).body}
                        /\ The(t.result).is_paste = {TRUE})

\* C4 witness: a fetched body longer than MAX_LEN is rejected with no call of
\* get_code, while the message itself would have been accepted inline.
C4_Witness ==
    \E x \in Tasks :
        LET t == tasks[x]
        IN  /\ Returned(t) /\ t.resp # {} /\ The(t.resp).status = 200
            /\ StrLen(The(t.resp).body) > MAX_LEN
            /\ ~The(t.result).success
            /\ ~Called(t, "get_code")
            /\ "Snekbox" \in cogs
            /\ StrLen(t.content) <= MAX_LEN

\* C5 as stated: code longer than MAX_LEN gives a rejection that can be told
\* from the rejection given when no code is found.
C5_TooLongDistinct ==
    \A x \in Tasks :
        Returned(tasks[x]) /\ TooLong(tasks[x]) =>
            The(tasks[x].result) # Outcome({}, FALSE)

\* C5 amended: code longer than MAX_LEN, fetched from a paste or extracted
\* inline, gives the rejection (False, None, None), the very tuple returned
\* when no code is found: the result carries no reason.
C5_TooLongRejected ==
    \A x \in Tasks :
        LET t == tasks[x]
        IN  Returned(t) /\ (TooLong(t) \/ ~Truthy(t.code)) => The(t.result) = Rejected

\* C5 witness: inline code of more than MAX_LEN characters, rejected.
C5_Witness ==
    \E x \in Tasks :
        LET t == tasks[x]
        IN  /\ Returned(t) /\ TooLong(t) /\ t.is_paste = {FALSE}
            /\ The(t.result) = Rejected

SameArguments(t, u) ==
    /\ t.content = u.content
    /\ t.require_fenced = u.require_fenced
    /\ t.check_is_python = u.check_is_python

\* C6 as stated: two invocations of parse_code on identical arguments return
\* identical results, run one after the other or interleaved, whatever happens
\* to the loaded cogs between them.
C6_Idempotent ==
    \A x \in Tasks, y \in Tasks :
        Returned(tasks[x]) /\ Returned(tasks[y]) /\ SameArguments(tasks[x], tasks[y])
            => tasks[x].result = tasks[y].result

\* C6 amended: two invocations of parse_code on identical arguments return
\* identical results provided that both find the same cogs loaded when
\* get_code looks them up (or that neither runs get_code); the set of loaded
\* cogs is the one state an invocation reads that another event can change.
C6_IdempotentUnderSameCogs ==
    \A x \in Tasks, y \in Tasks :
        /\ Returned(tasks[x]) /\ Returned(tasks[y])
        /\ SameArguments(tasks[x], tasks[y])
        /\ tasks[x].lookup = tasks[y].lookup
        => tasks[x].result = tasks[y].result

\* C6 witness: both invocations ran get_code with the same cogs loaded and
\* returned the same accepted code, and the cogs have changed since.
C6_Witness ==
    /\ Returned(tasks["a"]) /\ Returned(tasks["b"])
    /\ tasks["a"].lookup # {} /\ tasks["a"].lookup = tasks["b"].lookup
    /\ The(tasks["a"].result).success
    /\ tasks["a"].result = tasks["b"].result
    /\ cogs # The(tasks["a"].lookup)

\* C7: an invocation of parse_code borrows the HTTP connection at most once,
\* never when the text has no paste URL match, and holds none once the fetch
\* is over, whatever its outcome (200, another status, timeout, error).
C7_ConnectionScoped ==
    \A x \in Tasks :
        LET t == tasks[x]
        IN  UsesParseCode(t) =>
                /\ Count(t, "GET") <= 1
                /\ (~HasPasteUrl(t) => Count(t, "GET") = 0)
                /\ (t.conn => t.pc \in {"get", "black"})
                /\ (t.conn /\ t.pc = "get" => ~Returned(t) /\ Count(t, "GET") = 1)

\* C7 witness: a fetch that timed out, its connection released.
C7_Witness ==
    \E x \in Tasks :
        /\ tasks[x].exc = "TimeoutError"
        /\ tasks[x].calls[Len(tasks[x].calls)].op = "GET"
        /\ ~tasks[x].conn

Sends(t) == Count(t, "send") + Count(t, "send_message")

\* C8: upload_to_workbin calls send_to_paste_service only when parse_code
\* accepted the message and the code is not of paste origin; when parse_code
\* rejects, or the code is of paste origin, it sends exactly one ephemeral
\* reply and uploads nothing.
C8_UploadOnlyInline ==
    \A x \in Tasks :
        LET t == tasks[x]
        IN  t.cmd = "upload_to_workbin" /\ Returned(t) =>
                LET r == The(t.result)
                IN  /\ (Called(t, "send_to_paste_service")
                            => r.success /\ r.is_paste = {FALSE})
                    /\ (~r.success =>
                            /\ t.pc = "done"
                            /\ t.calls[Len(t.calls)] = Msg("send", NO_CODE, TRUE, FALSE)
                            /\ Sends(t) = 1
                            /\ ~Called(t, "send_to_paste_service"))
                    /\ (r.success /\ r.is_paste = {TRUE} =>
                            /\ t.pc = "done"
                            /\ t.calls[Len(t.calls)] = Msg("send", ALREADY_PASTE, TRUE, FALSE)
                            /\ Sends(t) = 1
                            /\ ~Called(t, "send_to_paste_service"))

\* C8 witness: a message whose paste link resolved, answered with "This is
\* already a paste link."
C8_Witness ==
    \E x \in Tasks :
        LET t == tasks[x]
        IN  /\ t.cmd = "upload_to_workbin" /\ t.pc = "done"
            /\ The(t.result).success /\ The(t.result).is_paste = {TRUE}
            /\ Sends(t) = 1

\* C9 as stated: wherever run_in_snekbox (send_eval) and _format_black
\* (upload_output) call a method on the result of get_snekbox(), the Snekbox
\* cog is loaded.
C9_SnekboxLoaded ==
    \A x \in Tasks :
        \A i \in 1..Len(tasks[x].calls) :
            tasks[x].calls[i].op \in {"send_eval", "upload_output"}
                => tasks[x].calls[i].arg = <<"Snekbox">>

\* C10 as stated: every invocation of invite sends exactly one response; once
\* a validation step has sent its error message the command ends.
C10_OneResponse ==
    \A x \in Tasks :
        tasks[x].cmd = "invite" /\ Finished(tasks[x])
            => Sends(tasks[x]) = 1 /\ tasks[x].pc = "done"

====
